---- MODULE Spec2Model ----
(***************************************************************************)
(* Generic parameters of ra_hir (crates/ra_hir/src/generics.rs).           *)
(*                                                                         *)
(* The database is a read-only syntax snapshot `db` (one syntax node per   *)
(* declaration handle) and the memo table of the `generic_params` query.   *)
(* Option<T> is modelled as a sequence: None is << >>, Some(x) is <<x>>.    *)
(* The u32 indices never come near 2^32 for the sizes explored, so idx is  *)
(* a plain natural number.                                                 *)
(***************************************************************************)
EXTENDS Naturals, Sequences, FiniteSets, TLC

VARIABLES db, memo, pc, stack, ret, policy

vars == <<db, memo, pc, stack, ret, policy>>

\* ---------------------------------------------------------------- bounds
MaxDepth == 3
MaxParams == 2
MaxWhereNodes == 4
NumThreads == 2

\* ---------------------------------------------------------------- Option
None == << >>
Some(x) == <<x>>
IsSome(o) == o # << >>
Unwrap(o) == o[1]

\* ------------------------------------------------------------- data model
\* enum GenericDef: the six variants; a handle's variant is its node's kind.
GenericDef == {"Function", "Struct", "Enum", "Trait", "TypeAlias", "ImplBlock"}

\* enum Container, as converted by From<Container> for GenericDef.
Container == {"Trait", "ImplBlock"}

\* Name::self_type() and Name::missing()
self_type == "Self"
missing == "[missing name]"

\* struct GenericParam { idx, name }
GenericParam(idx, name) == [idx |-> idx, name |-> name]

\* struct WherePredicate { type_ref, trait_ref }
WherePredicate(type_ref, trait_ref) == [type_ref |-> type_ref, trait_ref |-> trait_ref]

\* GenericParams::default()
GenericParamsDefault == [parent_params |-> None, params |-> << >>, where_predicates |-> << >>]

\* ------------------------------------------------------- lowering helpers
\* TypeRef::from_ast: the HIR type of a syntax type reference.
TypeRef_from_ast(type_ref) == [Path |-> type_ref.name]

\* Path::from_ast: the HIR path of a syntax path, None when it cannot be lowered.
Path_from_ast(path) == IF path.lowers THEN Some([segments |-> <<path.name>>]) ELSE None

\* ---------------------------------------------------------- the resolver
\* Variant: every kind of declaration takes its container as parent.
parent_of_any_kind(d, def) == d[def].container

\* lines 57-62: the parent of a declaration.
parent_of(d, def) ==
    CASE d[def].kind = "Function" -> d[def].container
      [] d[def].kind = "TypeAlias" -> d[def].container
      [] d[def].kind \in {"Struct", "Enum", "Trait"} -> None
      [] d[def].kind = "ImplBlock" -> None

\* Variant: the parameters are numbered from 0, `start` is not added.
fill_params_no_start(params, type_params, start) ==
    params \o [i \in 1..Len(type_params) |->
                 GenericParam(i - 1,
                              IF IsSome(type_params[i]) THEN Unwrap(type_params[i])
                              ELSE missing)]

\* lines 90-96: one GenericParam per type parameter, numbered from `start`.
fill_params(params, type_params, start) ==
    params \o [i \in 1..Len(type_params) |->
                 GenericParam((i - 1) + start,
                              IF IsSome(type_params[i]) THEN Unwrap(type_params[i])
                              ELSE missing)]

RECURSIVE bounds_of(_, _)
\* Variant: only the first conjunct of a bound list is read.
bounds_of_first_only(type_ref, bounds) ==
    IF bounds = << >> THEN << >>
    ELSE LET bound == Head(bounds)
             path == IF ~IsSome(bound.type_ref) THEN None
                     ELSE IF Unwrap(bound.type_ref).kind # "PathType" THEN None
                     ELSE IF ~IsSome(Unwrap(bound.type_ref).path) THEN None
                     ELSE Path_from_ast(Unwrap(Unwrap(bound.type_ref).path))
         IN  IF IsSome(path)
             THEN <<WherePredicate(TypeRef_from_ast(type_ref), Unwrap(path))>>
             ELSE << >>

\* lines 104-120: the predicates of one source predicate's bound list.
bounds_of(type_ref, bounds) ==
    IF bounds = << >> THEN << >>
    ELSE LET bound == Head(bounds)
             path == IF ~IsSome(bound.type_ref) THEN None
                     ELSE IF Unwrap(bound.type_ref).kind # "PathType" THEN None
                     ELSE IF ~IsSome(Unwrap(bound.type_ref).path) THEN None
                     ELSE Path_from_ast(Unwrap(Unwrap(bound.type_ref).path))
         IN  IF IsSome(path)
             THEN <<WherePredicate(TypeRef_from_ast(type_ref), Unwrap(path))>>
                      \o bounds_of(type_ref, Tail(bounds))
             ELSE bounds_of(type_ref, Tail(bounds))

RECURSIVE fill_where_predicates(_, _)
\* Variant: a predicate without a subject ends the loop (`break` for `continue`).
fill_where_predicates_break(where_predicates, where_clause) ==
    IF where_clause = << >> THEN where_predicates
    ELSE LET pred == Head(where_clause)
         IN  IF ~IsSome(pred.type_ref)
             THEN where_predicates
             ELSE fill_where_predicates(
                      where_predicates
                          \o bounds_of(Unwrap(pred.type_ref),
                                       IF IsSome(pred.type_bound_list)
                                       THEN Unwrap(pred.type_bound_list) ELSE << >>),
                      Tail(where_clause))

\* lines 98-122
fill_where_predicates(where_predicates, where_clause) ==
    IF where_clause = << >> THEN where_predicates
    ELSE LET pred == Head(where_clause)
         IN  IF ~IsSome(pred.type_ref)
             THEN fill_where_predicates(where_predicates, Tail(where_clause))
             ELSE fill_where_predicates(
                      where_predicates
                          \o bounds_of(Unwrap(pred.type_ref),
                                       IF IsSome(pred.type_bound_list)
                                       THEN Unwrap(pred.type_bound_list) ELSE << >>),
                      Tail(where_clause))

\* Variant: an absent parameter list is read as one unnamed parameter.
fill_absent_list_as_param(generics, node, start) ==
    LET g1 == [generics EXCEPT !.params =
                  fill_params(generics.params,
                              IF IsSome(node.type_param_list)
                              THEN Unwrap(node.type_param_list) ELSE <<None>>,
                              start)]
    IN  IF IsSome(node.where_clause)
        THEN [g1 EXCEPT !.where_predicates =
                  fill_where_predicates(g1.where_predicates, Unwrap(node.where_clause))]
        ELSE g1

\* lines 81-88
fill(generics, node, start) ==
    LET g1 == IF IsSome(node.type_param_list)
              THEN [generics EXCEPT !.params =
                        fill_params(generics.params, Unwrap(node.type_param_list), start)]
              ELSE generics
    IN  IF IsSome(node.where_clause)
        THEN [g1 EXCEPT !.where_predicates =
                  fill_where_predicates(g1.where_predicates, Unwrap(node.where_clause))]
        ELSE g1

\* Variant: Self is pushed after the declared parameters.
generics_self_last(d, def, parent_params) ==
    LET generics == [GenericParamsDefault EXCEPT !.parent_params = parent_params]
        start == IF IsSome(parent_params) THEN Len(Unwrap(parent_params).params) ELSE 0
        filled == fill(generics, d[def], start)
    IN  IF d[def].kind = "Trait"
        THEN [filled EXCEPT !.params =
                  Append(filled.params, GenericParam(start + Len(filled.params), self_type))]
        ELSE filled

\* lines 63-78: the table of `def`, given the table of its parent (if any).
generics_with_parent(d, def, parent_params) ==
    LET generics == [GenericParamsDefault EXCEPT !.parent_params = parent_params]
        start == IF IsSome(parent_params) THEN Len(Unwrap(parent_params).params) ELSE 0
    IN  IF d[def].kind = "Trait"
        THEN fill([generics EXCEPT !.params = <<GenericParam(start, self_type)>>],
                  d[def], start + 1)
        ELSE fill(generics, d[def], start)

\* lines 52-79 with db.generic_params (lines 173-180) memoized in `m`:
\* the memo table after the query, and the table returned.
RECURSIVE generic_params_query(_, _, _)
generic_params(m, d, def) ==
    IF IsSome(m[def]) THEN [memo |-> m, value |-> Unwrap(m[def])]
    ELSE LET r == generic_params_query(m, d, def)
         IN  [memo |-> [r.memo EXCEPT ![def] = Some(r.value)], value |-> r.value]

generic_params_query(m, d, def) ==
    LET parent == parent_of(d, def)
        p == IF IsSome(parent) THEN generic_params(m, d, Unwrap(parent))
             ELSE [memo |-> m, value |-> GenericParamsDefault]
        parent_params == IF IsSome(parent) THEN Some(p.value) ELSE None
    IN  [memo |-> p.memo, value |-> generics_with_parent(d, def, parent_params)]

\* ------------------------------------------------------------ read views
\* lines 128-135
RECURSIVE count_params_including_parent(_)
count_parent_params(generics) ==
    IF IsSome(generics.parent_params)
    THEN count_params_including_parent(Unwrap(generics.parent_params))
    ELSE 0

count_params_including_parent(generics) ==
    count_parent_params(generics) + Len(generics.params)

\* lines 137-142
RECURSIVE for_each_param(_)
for_each_param(generics) ==
    (IF IsSome(generics.parent_params)
     THEN for_each_param(Unwrap(generics.parent_params)) ELSE << >>)
        \o generics.params

\* Variant: only the own params are listed.
params_own_only(generics) == generics.params

\* lines 144-148
params_including_parent(generics) == for_each_param(generics)

\* Variant: the lookup also searches the params of the parent.
find_by_name_in_chain(generics, name) ==
    LET all == for_each_param(generics)
        hits == {i \in 1..Len(all) : all[i].name = name}
    IN  IF hits = {} THEN None
        ELSE Some(all[CHOOSE i \in hits : \A j \in hits : i <= j])

\* lines 124-126
find_by_name(generics, name) ==
    LET hits == {i \in 1..Len(generics.params) : generics.params[i].name = name}
    IN  IF hits = {} THEN None
        ELSE Some(generics.params[CHOOSE i \in hits : \A j \in hits : i <= j])

\* ------------------------------------------------------ syntax snapshots
\* Names given to type parameters, by position in their list.
TypeParamNames == <<"T", "U", "V", "W">>

RECURSIVE SeqsOfLen(_, _)
SeqsOfLen(S, n) ==
    IF n = 0 THEN {<< >>}
    ELSE {Append(s, x) : s \in SeqsOfLen(S, n - 1), x \in S}

SeqsUpTo(S, n) == UNION {SeqsOfLen(S, k) : k \in 0..n}

\* A syntax node: what `it.source(db).1` and `it.container(db)` give.
Node(kind, container, type_param_list, where_clause) ==
    [kind |-> kind, container |-> container,
     type_param_list |-> type_param_list, where_clause |-> where_clause]

\* The kinds along a lexical nesting chain: every node but the innermost
\* is a Trait or an ImplBlock.
ChainKinds(n) == {ks \in [1..n -> GenericDef] : \A i \in 1..(n - 1) : ks[i] \in Container}

\* A chain of nested declarations: handle i + 1 lies inside handle i.
Chain(ks, pl, wc) ==
    [i \in 1..Len(ks) |->
        Node(ks[i], IF i > 1 THEN Some(i - 1) ELSE None, pl[i], wc[i])]

\* Absent list, or a list of 0..MaxParams named parameters.
ParamListsByLength ==
    {None} \cup {Some([i \in 1..n |-> Some(TypeParamNames[i])]) : n \in 0..MaxParams}

\* Absent list, or a list of 0..MaxParams parameters, each unnamed, T or U.
ParamListsByName ==
    {None} \cup {Some(l) : l \in SeqsUpTo({None, Some("T"), Some("U")}, MaxParams)}

\* The bounds of a predicate: a lifetime bound (no type), a type that is no
\* path, a path type without a path, a path that cannot be lowered, and
\* the lowerable paths A and B.
AstPath(name, lowers) == [name |-> name, lowers |-> lowers]
AstTypeRef(kind, path) == [kind |-> kind, path |-> path]
AstBounds ==
    {[type_ref |-> None],
     [type_ref |-> Some(AstTypeRef("ReferenceType", None))],
     [type_ref |-> Some(AstTypeRef("PathType", None))],
     [type_ref |-> Some(AstTypeRef("PathType", Some(AstPath("A", FALSE))))],
     [type_ref |-> Some(AstTypeRef("PathType", Some(AstPath("A", TRUE))))],
     [type_ref |-> Some(AstTypeRef("PathType", Some(AstPath("B", TRUE))))]}

AstSubjects == {None, Some([name |-> "T"]), Some([name |-> "U"])}

\* Source predicates of s syntax nodes: the predicate and s - 1 bounds
\* (alone, it has no bound list).
AstPredsOfSize(s) ==
    IF s = 1
    THEN {[type_ref |-> t, type_bound_list |-> None] : t \in AstSubjects}
    ELSE {[type_ref |-> t, type_bound_list |-> Some(b)] :
             t \in AstSubjects, b \in SeqsOfLen(AstBounds, s - 1)}

\* Where clauses of at most n syntax nodes.
RECURSIVE WhereClauses(_)
WhereClauses(n) ==
    {<< >>} \cup
    UNION {{<<p>> \o w : p \in AstPredsOfSize(s), w \in WhereClauses(n - s)} : s \in 1..n}

\* ------------------------------------------------------------ the memo
NoMemo(d) == [def \in DOMAIN d |-> None]

\* ------------------------------------------------- sequential resolution
\* One call of HasGenericParams::generic_params (lines 173-180), run to
\* completion: the query, its parent query and both memo entries.
Resolve(def) ==
    /\ memo' = generic_params(memo, db, def).memo
    /\ UNCHANGED <<db, pc, stack, ret, policy>>

NoThreads ==
    /\ pc = << >>
    /\ stack = << >>
    /\ ret = << >>
    /\ policy = "none"

\* Chains of up to MaxDepth declarations, lists of up to MaxParams
\* parameters, no where clause.
Init ==
    /\ \E n \in 1..MaxDepth :
         \E ks \in ChainKinds(n), pl \in [1..n -> ParamListsByLength] :
            db = Chain(ks, pl, [i \in 1..n |-> None])
    /\ memo = NoMemo(db)
    /\ NoThreads

Next == \E def \in DOMAIN db : Resolve(def)

Spec == Init /\ [][Next]_vars

\* A parent and a declaration nested in it, lists of up to MaxParams
\* parameters that are unnamed, T or U (duplicates included), and on each
\* declaration no where clause or `where T: A`.
OneBound(subject, trait) ==
    <<[type_ref |-> Some([name |-> subject]),
       type_bound_list |->
           Some(<<[type_ref |-> Some(AstTypeRef("PathType", Some(AstPath(trait, TRUE))))]>>)]>>

InitNames ==
    /\ \E n \in 1..2 :
         \E ks \in ChainKinds(n), pl \in [1..n -> ParamListsByName],
            wc \in [1..n -> {None, Some(OneBound("T", "A"))}] :
            db = Chain(ks, pl, wc)
    /\ memo = NoMemo(db)
    /\ NoThreads

SpecNames == InitNames /\ [][Next]_vars

\* A declaration of any kind with no where clause or one of up to
\* MaxWhereNodes syntax nodes, nested in a Trait or ImplBlock that
\* declares `where V: B`.
InitWhere ==
    /\ \E ks \in ChainKinds(2),
          w \in {None} \cup {Some(c) : c \in WhereClauses(MaxWhereNodes)} :
          db = Chain(ks, [i \in 1..2 |-> None],
                     [i \in 1..2 |-> IF i = 1 THEN Some(OneBound("V", "B")) ELSE w])
    /\ memo = NoMemo(db)
    /\ NoThreads

SpecWhere == InitWhere /\ [][Next]_vars

\* ------------------------------------------------- concurrent resolution
\* Client threads call generic_params against one snapshot. A call is a
\* stack of query frames; a frame is at "lookup" (the memo is about to be
\* consulted), "await" (its parent query runs in the frame above) or
\* "fill" (the parent table, if any, is in hand).
Frame(def, stage, parent_params) ==
    [def |-> def, stage |-> stage, parent_params |-> parent_params]

Top(t) == stack[t][Len(stack[t])]

\* The memo: another thread is computing `def`.
in_progress(t, def) ==
    \E u \in DOMAIN pc \ {t} : \E i \in 1..Len(stack[u]) :
        stack[u][i].def = def /\ stack[u][i].stage # "lookup"

\* The memo: a miss of `def` by thread t may start the query now. A
\* coordinating memo lets one thread compute a key and blocks the others
\* until its value is stored; a recomputing memo lets every miss compute.
may_compute(t, def) == policy = "recompute" \/ ~in_progress(t, def)

\* The top frame of thread t returns `value` to what called it.
Returned(t, value) ==
    IF Len(stack[t]) = 1
    THEN /\ pc' = [pc EXCEPT ![t] = "done"]
         /\ stack' = [stack EXCEPT ![t] = << >>]
         /\ ret' = [ret EXCEPT ![t] = Some([def |-> Top(t).def, value |-> value])]
    ELSE /\ stack' = [stack EXCEPT ![t] =
                 Append(SubSeq(stack[t], 1, Len(stack[t]) - 2),
                        [stack[t][Len(stack[t]) - 1] EXCEPT
                            !.stage = "fill", !.parent_params = Some(value)])]
         /\ UNCHANGED <<pc, ret>>

\* lines 173-180: a client calls def.generic_params(db).
Call(t, def) ==
    /\ pc[t] = "idle"
    /\ pc' = [pc EXCEPT ![t] = "running"]
    /\ stack' = [stack EXCEPT ![t] = <<Frame(def, "lookup", None)>>]
    /\ UNCHANGED <<db, memo, ret, policy>>

\* db.generic_params finds the key memoized.
MemoHit(t) ==
    /\ pc[t] = "running"
    /\ Top(t).stage = "lookup"
    /\ IsSome(memo[Top(t).def])
    /\ Returned(t, Unwrap(memo[Top(t).def]))
    /\ UNCHANGED <<db, memo, policy>>

\* Variant: the parent table is taken from the memo as it is, absent if the
\* parent was not resolved before.
QueryStartCachedParentOnly(t) ==
    /\ pc[t] = "running"
    /\ Top(t).stage = "lookup"
    /\ ~IsSome(memo[Top(t).def])
    /\ may_compute(t, Top(t).def)
    /\ LET parent == parent_of(db, Top(t).def)
       IN  stack' = [stack EXCEPT ![t][Len(stack[t])] =
                        Frame(Top(t).def, "fill",
                              IF IsSome(parent) THEN memo[Unwrap(parent)] ELSE None)]
    /\ UNCHANGED <<db, memo, pc, ret, policy>>

\* lines 56-63 on a miss: the parent is found and, if there is one, queried
\* through db.generic_params.
QueryStart(t) ==
    /\ pc[t] = "running"
    /\ Top(t).stage = "lookup"
    /\ ~IsSome(memo[Top(t).def])
    /\ may_compute(t, Top(t).def)
    /\ LET parent == parent_of(db, Top(t).def)
       IN  IF IsSome(parent)
           THEN stack' = [stack EXCEPT ![t] =
                    Append([stack[t] EXCEPT ![Len(stack[t])].stage = "await"],
                           Frame(Unwrap(parent), "lookup", None))]
           ELSE stack' = [stack EXCEPT ![t][Len(stack[t])].stage = "fill"]
    /\ UNCHANGED <<db, memo, pc, ret, policy>>

\* lines 64-78: the table is built and returned; the memo keeps it.
QueryFinish(t) ==
    /\ pc[t] = "running"
    /\ Top(t).stage = "fill"
    /\ LET value == generics_with_parent(db, Top(t).def, Top(t).parent_params)
       IN  /\ memo' = [memo EXCEPT ![Top(t).def] = Some(value)]
           /\ Returned(t, value)
    /\ UNCHANGED <<db, policy>>

\* The client is done with the table it was given.
Drop(t) ==
    /\ pc[t] = "done"
    /\ pc' = [pc EXCEPT ![t] = "idle"]
    /\ ret' = [ret EXCEPT ![t] = None]
    /\ UNCHANGED <<db, memo, stack, policy>>

\* NumThreads clients and a function or type alias nested in a Trait or
\* ImplBlock that is itself written inside another one; every declaration
\* has one type parameter.
InitConc ==
    /\ \E ks \in ChainKinds(3) :
          /\ ks[3] \in {"Function", "TypeAlias"}
          /\ db = Chain(ks, [i \in 1..3 |-> Some(<<Some(TypeParamNames[i])>>)],
                        [i \in 1..3 |-> None])
    /\ memo = NoMemo(db)
    /\ pc = [t \in 1..NumThreads |-> "idle"]
    /\ stack = [t \in 1..NumThreads |-> << >>]
    /\ ret = [t \in 1..NumThreads |-> None]
    /\ policy \in {"coordinate", "recompute"}

Step(t) == MemoHit(t) \/ QueryStart(t) \/ QueryFinish(t)

NextConc ==
    \E t \in DOMAIN pc :
        \/ \E def \in DOMAIN db : Call(t, def)
        \/ MemoHit(t)
        \/ QueryStart(t)
        \/ QueryFinish(t)
        \/ Drop(t)

\* A thread that can take a step of its query eventually takes one.
SpecConc ==
    /\ InitConc
    /\ [][NextConc]_vars
    /\ \A t \in 1..NumThreads : WF_vars(Step(t))

\* ------------------------------------------------------------ properties
Resolved == {def \in DOMAIN db : IsSome(memo[def])}
Table(def) == Unwrap(memo[def])

\* Number of type parameters the source of `def` declares.
Declared(def) ==
    IF IsSome(db[def].type_param_list) THEN Len(Unwrap(db[def].type_param_list)) ELSE 0

\* Name of the i-th declared type parameter of `def`.
DeclaredName(def, i) ==
    LET tp == Unwrap(db[def].type_param_list)[i]
    IN  IF IsSome(tp) THEN Unwrap(tp) ELSE missing

\* C1: a declaration with a parent numbers its own params P, P+1, ..., P+M-1
\* in declaration order, P being the parent's count_params_including_parent()
\* and M the number of its own params; the offset the query takes from the
\* parent (the length of the parent's params) equals P.
C1_OwnIndicesFollowParent ==
    \A def \in Resolved :
        IsSome(Table(def).parent_params) =>
            LET P == count_params_including_parent(Unwrap(Table(def).parent_params))
            IN  /\ Len(Unwrap(Table(def).parent_params).params) = P
                /\ \A i \in 1..Len(Table(def).params) :
                       Table(def).params[i].idx = P + (i - 1)

C1_Witness ==
    \E def \in Resolved :
        /\ IsSome(Table(def).parent_params)
        /\ db[Unwrap(db[def].container)].kind = "Trait"
        /\ Len(Unwrap(Table(def).parent_params).params) >= 2
        /\ Len(Table(def).params) >= 2

\* C2 as stated: a root declaration of any kind with N declared params has
\* own params numbered by position and count_params_including_parent() = N.
C2_RootCountIsDeclared ==
    \A def \in Resolved :
        ~IsSome(Table(def).parent_params) =>
            /\ \A i \in 1..Len(Table(def).params) : Table(def).params[i].idx = i - 1
            /\ count_params_including_parent(Table(def)) = Declared(def)

\* C2 amended: a root declaration with N declared params has own params
\* numbered by position, and count_params_including_parent() is N, or N + 1
\* for a Trait (the injected Self is counted).
C2_RootCount ==
    \A def \in Resolved :
        ~IsSome(Table(def).parent_params) =>
            /\ \A i \in 1..Len(Table(def).params) : Table(def).params[i].idx = i - 1
            /\ count_params_including_parent(Table(def)) =
                   Declared(def) + (IF db[def].kind = "Trait" THEN 1 ELSE 0)

C2_Witness ==
    /\ \E def \in Resolved :
          /\ db[def].kind = "Trait"
          /\ Declared(def) = 2
    /\ \E def \in Resolved :
          /\ db[def].kind = "Struct"
          /\ IsSome(db[def].container)
          /\ Declared(def) = 2

\* C3: position k of params_including_parent() holds the param with idx k;
\* the sequence is the parent's sequence followed by the own params, and its
\* length is count_params_including_parent().
C3_PositionIsIndex ==
    \A def \in Resolved :
        LET all == params_including_parent(Table(def))
            own == Table(def).params
            inherited == IF IsSome(Table(def).parent_params)
                         THEN params_including_parent(Unwrap(Table(def).parent_params))
                         ELSE << >>
        IN  /\ Len(all) = count_params_including_parent(Table(def))
            /\ \A k \in 1..Len(all) : all[k].idx = k - 1
            /\ Len(all) = Len(inherited) + Len(own)
            /\ \A k \in 1..Len(inherited) : all[k] = inherited[k]
            /\ \A k \in 1..Len(own) : all[Len(inherited) + k] = own[k]

C3_Witness ==
    \E def \in Resolved :
        /\ IsSome(Table(def).parent_params)
        /\ db[Unwrap(db[def].container)].kind = "Trait"
        /\ Len(Table(def).params) >= 1
        /\ Len(params_including_parent(Table(def))) >= 3

\* C4: a Trait's own params are Self at the start index followed by its
\* declared params in source order with the next indices, with or without
\* a parameter list; a declaration of another kind has exactly its declared
\* params and none named Self.
C4_TraitSelf ==
    \A def \in Resolved :
        LET own == Table(def).params
            start == count_parent_params(Table(def))
        IN  IF db[def].kind = "Trait"
            THEN /\ Len(own) = Declared(def) + 1
                 /\ own[1] = GenericParam(start, self_type)
                 /\ \A i \in 1..Declared(def) :
                        own[i + 1] = GenericParam(start + i, DeclaredName(def, i))
            ELSE /\ Len(own) = Declared(def)
                 /\ \A i \in 1..Len(own) : own[i].name # self_type

C4_Witness ==
    /\ \E def \in Resolved :
          db[def].kind = "Trait" /\ ~IsSome(db[def].type_param_list)
    /\ \E def \in Resolved :
          db[def].kind = "Trait" /\ Declared(def) = 2
    /\ \E def \in Resolved :
          db[def].kind = "ImplBlock" /\ Declared(def) = 2

\* Names a lookup may ask for.
LookupNames == {"T", "U", "V", self_type, missing}

\* C5: find_by_name returns the first own param, in declaration order, with
\* the requested name; None when no own param has it, even when a param of
\* the parent does; never a param of the parent.
C5_FindOwnFirst ==
    \A def \in Resolved : \A name \in LookupNames :
        LET own == Table(def).params
            found == find_by_name(Table(def), name)
        IN  /\ (\A i \in 1..Len(own) : own[i].name # name) => found = None
            /\ (\E i \in 1..Len(own) : own[i].name = name) => IsSome(found)
            /\ IsSome(found) =>
                  /\ Unwrap(found).idx >= count_parent_params(Table(def))
                  /\ \E i \in 1..Len(own) :
                        /\ own[i] = Unwrap(found)
                        /\ own[i].name = name
                        /\ \A j \in 1..(i - 1) : own[j].name # name

C5_Witness ==
    \E def \in Resolved :
        /\ IsSome(Table(def).parent_params)
        /\ IsSome(find_by_name(Unwrap(Table(def).parent_params), "T"))
        /\ find_by_name(Table(def), "T") = None
        /\ Len(Table(def).params) = 2
        /\ Table(def).params[1].name = "U"
        /\ Table(def).params[2].name = "U"
        /\ find_by_name(Table(def), "U") = Some(Table(def).params[1])

\* C9 as stated: a declaration of any kind without a type-parameter list has
\* no own params, and one without a where clause has no predicates.
C9_AbsentIsEmpty ==
    \A def \in Resolved :
        /\ ~IsSome(db[def].type_param_list) => Table(def).params = << >>
        /\ ~IsSome(db[def].where_clause) => Table(def).where_predicates = << >>

\* C9 amended: without a type-parameter list the own params are empty, or
\* the injected Self alone for a Trait; without a where clause the
\* predicates are empty; for each of the six kinds.
C9_AbsentIsEmptyButSelf ==
    \A def \in Resolved :
        /\ ~IsSome(db[def].type_param_list) =>
              Table(def).params =
                  (IF db[def].kind = "Trait"
                   THEN <<GenericParam(count_parent_params(Table(def)), self_type)>>
                   ELSE << >>)
        /\ ~IsSome(db[def].where_clause) => Table(def).where_predicates = << >>

C9_Witness ==
    /\ \E def \in Resolved :
          /\ db[def].kind = "Trait"
          /\ ~IsSome(db[def].type_param_list)
          /\ ~IsSome(db[def].where_clause)
    /\ \E def \in Resolved :
          /\ db[def].kind = "Function"
          /\ IsSome(Table(def).parent_params)
          /\ ~IsSome(db[def].type_param_list)
          /\ ~IsSome(db[def].where_clause)
          /\ Unwrap(Table(def).parent_params).params # << >>

\* The bound is a path type whose path lowers.
WellFormedBound(bound) ==
    /\ IsSome(bound.type_ref)
    /\ Unwrap(bound.type_ref).kind = "PathType"
    /\ IsSome(Unwrap(bound.type_ref).path)
    /\ Unwrap(Unwrap(bound.type_ref).path).lowers

BoundsOf(pred) ==
    IF IsSome(pred.type_bound_list) THEN Unwrap(pred.type_bound_list) ELSE << >>

\* The predicate that conjunct j of source predicate i stands for.
Entry(w, i, j) ==
    WherePredicate([Path |-> Unwrap(w[i].type_ref).name],
                   [segments |-> <<Unwrap(Unwrap(BoundsOf(w[i])[j].type_ref).path).name>>])

\* The conjuncts (i, j) of where clause w that have a subject and a
\* well-formed bound, and the rank of one among them in source order.
Surviving(w) ==
    {ij \in (1..Len(w)) \X (1..MaxWhereNodes + 1) :
        /\ IsSome(w[ij[1]].type_ref)
        /\ ij[2] <= Len(BoundsOf(w[ij[1]]))
        /\ WellFormedBound(BoundsOf(w[ij[1]])[ij[2]])}

Rank(w, ij) ==
    Cardinality({x \in Surviving(w) : x[1] < ij[1] \/ (x[1] = ij[1] /\ x[2] <= ij[2])})

AllWellFormed(w) ==
    \A i \in 1..Len(w) :
        /\ IsSome(w[i].type_ref)
        /\ \A j \in 1..Len(BoundsOf(w[i])) : WellFormedBound(BoundsOf(w[i])[j])

OwnClause(def) ==
    IF IsSome(db[def].where_clause) THEN Unwrap(db[def].where_clause) ELSE << >>

\* Number of conjuncts of the source predicates before predicate i.
RECURSIVE Offset(_, _)
Offset(w, i) == IF i = 1 THEN 0 ELSE Offset(w, i - 1) + Len(BoundsOf(w[i - 1]))

\* C6: a where clause whose predicates are all well formed is flattened to
\* one WherePredicate per conjunct, in source order, each with the subject
\* of its predicate; the table holds the entries of its own clause only.
C6_OnePerConjunct ==
    \A def \in Resolved :
        LET w == OwnClause(def)
            out == Table(def).where_predicates
        IN  AllWellFormed(w) =>
               /\ Len(out) = Offset(w, Len(w) + 1)
               /\ \A i \in 1..Len(w) : \A j \in 1..Len(BoundsOf(w[i])) :
                      out[Offset(w, i) + j] = Entry(w, i, j)

C6_Witness ==
    \E def \in Resolved :
        /\ IsSome(Table(def).parent_params)
        /\ Unwrap(Table(def).parent_params).where_predicates # << >>
        /\ Len(OwnClause(def)) = 1
        /\ AllWellFormed(OwnClause(def))
        /\ Table(def).where_predicates =
              <<WherePredicate([Path |-> "T"], [segments |-> <<"A">>]),
                WherePredicate([Path |-> "T"], [segments |-> <<"B">>])>>

\* C7: a source predicate without a subject and a conjunct that is no path
\* or whose path does not lower contribute nothing; every other conjunct
\* contributes exactly its entry, in source order.
C7_MalformedDropped ==
    \A def \in Resolved :
        LET w == OwnClause(def)
            out == Table(def).where_predicates
        IN  /\ Len(out) = Cardinality(Surviving(w))
            /\ \A ij \in Surviving(w) : out[Rank(w, ij)] = Entry(w, ij[1], ij[2])

C7_Witness ==
    \E def \in Resolved :
        LET w == OwnClause(def)
        IN  /\ Len(w) = 2
            /\ w[1] = OneBound("T", "A")[1]
            /\ w[2].type_ref = Some([name |-> "U"])
            /\ Len(BoundsOf(w[2])) = 1
            /\ ~WellFormedBound(BoundsOf(w[2])[1])
            /\ Table(def).where_predicates =
                  <<WherePredicate([Path |-> "T"], [segments |-> <<"A">>])>>

\* The table one sequential computation of `def` produces.
Sequential(def) == generic_params_query(NoMemo(db), db, def).value

\* C8: every table a call returns, and every table the memo holds, is the
\* table a single sequential computation of that declaration produces,
\* whatever the interleaving and whichever way the memo treats duplicates.
C8_ResolvePure ==
    /\ \A t \in DOMAIN pc :
          pc[t] = "done" => Unwrap(ret[t]).value = Sequential(Unwrap(ret[t]).def)
    /\ \A def \in Resolved : Table(def) = Sequential(def)
    /\ \A t \in DOMAIN pc : \A u \in DOMAIN pc :
          (pc[t] = "done" /\ pc[u] = "done" /\ Unwrap(ret[t]).def = Unwrap(ret[u]).def)
              => Unwrap(ret[t]).value = Unwrap(ret[u]).value

C8_Witness ==
    /\ policy = "recompute"
    /\ pc[1] = "done" /\ Unwrap(ret[1]).def = 3
    /\ pc[2] = "running"
    /\ Len(stack[2]) = 1 /\ Top(2).def = 2 /\ Top(2).stage = "fill"
    /\ IsSome(memo[2])

\* A call in progress queries at most one parent, a Trait or ImplBlock on
\* behalf of a Function or TypeAlias, and never its own key.
DepthAtMostOne ==
    \A t \in DOMAIN pc :
        /\ Len(stack[t]) <= 2
        /\ Len(stack[t]) = 2 =>
              /\ stack[t][1].def # stack[t][2].def
              /\ db[stack[t][1].def].kind \in {"Function", "TypeAlias"}
              /\ db[stack[t][2].def].kind \in Container
              /\ parent_of(db, stack[t][2].def) = None

\* C10: every call eventually returns, and the parent relation has depth at
\* most one: resolving a declaration starts at most one parent resolution
\* and no call queries its own key.
C10_Terminates ==
    /\ []DepthAtMostOne
    /\ \A t \in 1..NumThreads : (pc[t] = "running") ~> (pc[t] = "done")

C10_Witness ==
    /\ policy = "coordinate"
    /\ Len(stack[1]) = 2 /\ Top(1).def = 2 /\ Top(1).stage = "lookup"
    /\ Len(stack[2]) = 1 /\ Top(2).def = 2 /\ Top(2).stage = "fill"

====
